---- MODULE Spec2Model ----
(***************************************************************************)
(* Model of Analysis/generate_efficiency_plots.py: a one-shot batch script *)
(* that loads a CSV of experiment results, renames the technique labels,   *)
(* derives MemoryUsed_MB, aggregates mean/std per technique, reindexes the *)
(* aggregate into TECHNIQUE_ORDER and renders six annotated bar charts.    *)
(*                                                                         *)
(* Numbers.  The script computes in float64.  The model computes in exact  *)
(* arithmetic: a finite value is a normalised rational [num, den] with     *)
(* den > 0, NaN is [num |-> 0, den |-> 0], and a standard deviation is the *)
(* surd coef * sqrt(rad) (rad = 1 when the variance is a perfect square).  *)
(* float64 differs from these values only by its rounding error.           *)
(***************************************************************************)
EXTENDS Integers, Sequences, FiniteSets, TLC

VARIABLES
    pc,                  \* position of the script's single thread of control
    fileExists,          \* os.path.exists(CSV_FILE_PATH)
    csv,                 \* content of the CSV file: [columns, rows]
    dirExists,           \* os.path.exists(PLOT_OUTPUT_DIR)
    dataframe,           \* module-level `dataframe` (None before/without load)
    df_summary,          \* module-level `df_summary`
    df_summary_ordered,  \* module-level `df_summary_ordered`
    saved,               \* the figures written by plt.savefig, in order
    stdout,              \* the texts printed, one per print call, in order
    i,                   \* index of the metric loop of the running plot function
    error                \* cause of the unhandled exception that ended the run, or "none"

vars == <<pc, fileExists, csv, dirExists, dataframe, df_summary,
          df_summary_ordered, saved, stdout, i, error>>

-----------------------------------------------------------------------------
(* Exact arithmetic standing for float64 *)

RECURSIVE GCD(_, _)
GCD(a, b) == IF b = 0 THEN a ELSE GCD(b, a % b)

Abs(n) == IF n < 0 THEN -n ELSE n

NaN == [num |-> 0, den |-> 0]

IsNaN(r) == r.den = 0

\* the rational n/d (d > 0) in lowest terms
Rat(n, d) ==
    LET g == GCD(Abs(n), d)
    IN  [num |-> n \div g, den |-> d \div g]

Whole(n) == [num |-> n, den |-> 1]

Zero == Whole(0)

One == Whole(1)

RatAdd(a, b) ==
    IF IsNaN(a) \/ IsNaN(b) THEN NaN
    ELSE LET l == (a.den \div GCD(a.den, b.den)) * b.den
         IN  Rat(a.num * (l \div a.den) + b.num * (l \div b.den), l)

RatNeg(a) == IF IsNaN(a) THEN NaN ELSE [num |-> -a.num, den |-> a.den]

RatSub(a, b) == RatAdd(a, RatNeg(b))

RatMul(a, b) ==
    IF IsNaN(a) \/ IsNaN(b) THEN NaN
    ELSE LET g1 == GCD(Abs(a.num), b.den)
             g2 == GCD(Abs(b.num), a.den)
         IN  IF a.num = 0 \/ b.num = 0 THEN Zero
             ELSE [num |-> (a.num \div g1) * (b.num \div g2),
                   den |-> (a.den \div g2) * (b.den \div g1)]

\* a / n for an integer n > 0
RatDivInt(a, n) == RatMul(a, Rat(1, n))

\* a < b as IEEE comparison: FALSE when either side is NaN
RatLess(a, b) ==
    /\ ~IsNaN(a)
    /\ ~IsNaN(b)
    /\ a.num * b.den < b.num * a.den

\* floor of the square root of n >= 0, by bisection on lo..hi
RECURSIVE IsqrtIn(_, _, _)
IsqrtIn(n, lo, hi) ==
    IF lo >= hi THEN lo
    ELSE LET mid == (lo + hi + 1) \div 2
         IN  IF mid <= n \div mid THEN IsqrtIn(n, mid, hi)
             ELSE IsqrtIn(n, lo, mid - 1)

Isqrt(n) == IF n < 2 THEN n ELSE IsqrtIn(n, 1, n)

IsSquare(n) == Isqrt(n) * Isqrt(n) = n

NaNSurd == [coef |-> NaN, rad |-> NaN]

\* sqrt(r) for a rational r >= 0, as coef * sqrt(rad)
Sqrt(r) ==
    IF IsNaN(r) THEN NaNSurd
    ELSE IF IsSquare(r.num) /\ IsSquare(r.den)
         THEN [coef |-> Rat(Isqrt(r.num), Isqrt(r.den)), rad |-> One]
         ELSE [coef |-> One, rad |-> r]

SurdIsNaN(s) == IsNaN(s.coef)

SurdIsZero(s) == ~SurdIsNaN(s) /\ s.coef.num = 0

SurdIsPositive(s) == ~SurdIsNaN(s) /\ s.coef.num > 0

SurdZero == [coef |-> Zero, rad |-> One]

\* a real of the form rat + coef * sqrt(rad)
Real(r, s) ==
    IF IsNaN(r) \/ SurdIsNaN(s) THEN [rat |-> NaN, coef |-> NaN, rad |-> NaN]
    ELSE [rat |-> r, coef |-> s.coef, rad |-> s.rad]

\* x * c for a rational c
RealScale(x, c) ==
    [rat |-> RatMul(x.rat, c), coef |-> RatMul(x.coef, c), rad |-> x.rad]

-----------------------------------------------------------------------------
(* Number formatting: f"{value:.{precision}f}" and f"{n:02d}" *)

RECURSIVE Pow10(_)
Pow10(p) == IF p = 0 THEN 1 ELSE 10 * Pow10(p - 1)

\* n * 10^p / d rounded to the nearest integer, ties to even (n >= 0, d > 0)
RoundHalfEven(n, d) ==
    LET q == n \div d
        r == n % d
    IN  IF 2 * r < d THEN q
        ELSE IF 2 * r > d THEN q + 1
        ELSE IF q % 2 = 0 THEN q ELSE q + 1

\* the decimal digits of n >= 0 left-padded with zeros to width w
RECURSIVE ZeroPad(_, _)
ZeroPad(n, w) ==
    IF w = 0 THEN ""
    ELSE ZeroPad(n \div 10, w - 1) \o ToString(n % 10)

\* f"{value:.{precision}f}" for a value >= 0 or NaN.  Python rounds the exact
\* binary value half-to-even; for a value float64 holds exactly that is the
\* rounding of the rational itself
FormatFixed(value, precision) ==
    IF IsNaN(value) THEN "nan"
    ELSE LET scaled == RoundHalfEven(value.num * Pow10(precision), value.den)
             whole  == scaled \div Pow10(precision)
             frac   == scaled % Pow10(precision)
         IN  IF precision = 0 THEN ToString(whole)
             ELSE ToString(whole) \o "." \o ZeroPad(frac, precision)

\* f"{n:02d}" for 0 <= n
Format02d(n) == IF n < 10 THEN "0" \o ToString(n) ELSE ToString(n)

-----------------------------------------------------------------------------
(* Module-level configuration *)

CSV_FILE_PATH == "../ExperimentResults/TCC_Experiment_Results.csv"

PLOT_OUTPUT_DIR == "plots/"

TECHNIQUE_MAP ==
    [raw \in {"AgentBasedRandomWalk", "LSystem", "PathBasedAStarPOIs"} |->
        CASE raw = "AgentBasedRandomWalk" -> "Abordagem Baseada em Agentes"
          [] raw = "LSystem"              -> "L-systems"
          [] raw = "PathBasedAStarPOIs"   -> "Algoritmos Baseados em Grafos"]

TECHNIQUE_ORDER ==
    << "Abordagem Baseada em Agentes",
       "L-systems",
       "Algoritmos Baseados em Grafos" >>

metrics_to_aggregate ==
    << "GenerationTime_s", "MemoryUsed_MB",
       "IntersectionCount_V", "AverageRoadLength", "AverageCircuity",
       "AverageRoadSteepness" >>

\* metrics_to_plot_details of create_structural_realism_plots, in dict order
structural_metrics ==
    << [metric |-> "IntersectionCount_V", unit |-> "",  precision |-> 1],
       [metric |-> "AverageRoadLength",   unit |-> "m", precision |-> 1],
       [metric |-> "AverageCircuity",     unit |-> "",  precision |-> 3] >>

\* metrics_to_plot_details of create_functional_adaptability_plots
adaptability_metrics ==
    << [metric |-> "AverageRoadSteepness", unit |-> "", precision |-> 3] >>

BytesPerMB == 1024 * 1024

None == [none |-> TRUE]

Range(s) == {s[k] : k \in DOMAIN s}

-----------------------------------------------------------------------------
(* The input: the CSV file *)

MaxRows == 3

\* the metric columns a results file can carry
SourceMetrics ==
    {"GenerationTime_s", "MemoryUsed_bytes", "IntersectionCount_V",
     "AverageRoadLength", "AverageCircuity", "AverageRoadSteepness"}

\* raw labels: the three the map knows, a display name written as is, and a
\* label the map does not know
RawLabels ==
    DOMAIN TECHNIQUE_MAP \cup {"L-systems", "WaveFunctionCollapse"}

\* the measurements of one experiment run.  Every value is a dyadic rational,
\* which float64 holds exactly; both runs measure the same steepness
Measurements ==
    { [GenerationTime_s     |-> Rat(1, 16),
       MemoryUsed_bytes     |-> Whole(2097152),
       IntersectionCount_V  |-> Whole(0),
       AverageRoadLength    |-> Rat(3, 4),
       AverageCircuity      |-> Whole(1),
       AverageRoadSteepness |-> Rat(1, 8)],
      [GenerationTime_s     |-> Whole(1),
       MemoryUsed_bytes     |-> Whole(1047552),
       IntersectionCount_V  |-> Whole(3),
       AverageRoadLength    |-> Rat(5, 2),
       AverageCircuity      |-> Rat(5, 4),
       AverageRoadSteepness |-> Rat(1, 8)] }

CsvRow(label, run, metrics) ==
    [c \in {"Technique"} \cup metrics |->
        IF c = "Technique" THEN label ELSE run[c]]

CsvRows(metrics) ==
    {CsvRow(label, run, metrics) : label \in RawLabels, run \in Measurements}

\* the file with the given metric columns and rows
CsvFile(metrics, rows) ==
    [columns |-> {"Technique"} \cup metrics, rows |-> rows]

NoFile == [columns |-> {}, rows |-> <<>>]

-----------------------------------------------------------------------------
(* load_data *)

\* the renaming without its fillna: an unknown label becomes missing
MapTechnique_NoFillna(label) ==
    IF label \in DOMAIN TECHNIQUE_MAP THEN TECHNIQUE_MAP[label] ELSE "nan"

\* df['Technique'].map(TECHNIQUE_MAP).fillna(df['Technique']), for one label
MapTechnique(label) ==
    IF label \in DOMAIN TECHNIQUE_MAP THEN TECHNIQUE_MAP[label] ELSE label

\* the conversion with decimal megabytes
BytesToMB_Decimal(bytes) == RatDivInt(bytes, 1000 * 1000)

\* df['MemoryUsed_bytes'] / (1024 * 1024), for one value
BytesToMB(bytes) == RatDivInt(bytes, BytesPerMB)

\* one row after the renaming of line 53
RenamedRow(row) ==
    [c \in DOMAIN row |-> IF c = "Technique" THEN MapTechnique(row[c]) ELSE row[c]]

\* one row after the new column of line 56
WithMemoryMB(row) ==
    [c \in DOMAIN row \cup {"MemoryUsed_MB"} |->
        IF c = "MemoryUsed_MB" THEN BytesToMB(row["MemoryUsed_bytes"]) ELSE row[c]]

\* the frame load_data returns for a file that has the MemoryUsed_bytes column
LoadedFrame(file) ==
    [columns |-> file.columns \cup {"MemoryUsed_MB"},
     rows    |-> [k \in DOMAIN file.rows |-> WithMemoryMB(RenamedRow(file.rows[k]))]]

\* Series.unique(): the distinct values in order of first appearance
RECURSIVE Unique(_)
Unique(s) ==
    IF s = <<>> THEN <<>>
    ELSE LET front == Unique(SubSeq(s, 1, Len(s) - 1))
             last  == s[Len(s)]
         IN  IF last \in Range(front) THEN front ELSE Append(front, last)

\* str() of the object array unique() returns, as numpy's arrayprint lays it
\* out: the elements' repr separated by one space, on lines indented by one
\* column (the first under the bracket) and broken before an element that
\* would take a line past 74 columns (the line width 75 less the bracket).
\* ArrayLayout is the text between the brackets and the width of its last
\* line, separator included
RECURSIVE ArrayLayout(_)
ArrayLayout(s) ==
    IF s = <<>> THEN [text |-> "", width |-> 1]
    ELSE LET front == ArrayLayout(SubSeq(s, 1, Len(s) - 1))
             word  == "'" \o s[Len(s)] \o "'"
             wrap  == front.width + Len(word) > 75 - 1 /\ front.width > 1
         IN  IF wrap
             THEN [text  |-> front.text \o "\n " \o word,
                   width |-> 1 + Len(word) + 1]
             ELSE [text  |-> front.text \o (IF Len(s) = 1 THEN "" ELSE " ") \o word,
                   width |-> front.width + Len(word) + 1]

ArrayText(s) == ArrayLayout(s).text

\* the lines load_data prints for an existing file, up to line 54
LoadLines(file) ==
    << "Loading data from " \o CSV_FILE_PATH \o "...",
       "Data loaded successfully. Shape: (" \o ToString(Len(file.rows)) \o ", "
           \o ToString(Cardinality(file.columns)) \o ")",
       "Renamed techniques to: ["
           \o ArrayText(Unique([k \in DOMAIN file.rows |->
                                   MapTechnique(file.rows[k]["Technique"])]))
           \o "]" >>

FileNotFoundLines ==
    << "Error: Data file not found at " \o CSV_FILE_PATH,
       "Please ensure the CSV file is in the 'ExperimentResults' folder." >>

-----------------------------------------------------------------------------
(* Aggregation: dataframe.groupby('Technique')[existing_metrics].agg(['mean', 'std']) *)

\* [m for m in metrics_to_aggregate if m in dataframe.columns]
ExistingMetrics(df) ==
    SelectSeq(metrics_to_aggregate, LAMBDA m : m \in df.columns)

\* the labels a frame can carry, in the lexicographic order groupby sorts keys in
LabelSortOrder ==
    << "Abordagem Baseada em Agentes", "Algoritmos Baseados em Grafos",
       "L-systems", "WaveFunctionCollapse" >>

\* the group keys of the frame, sorted
GroupKeys(df) ==
    SelectSeq(LabelSortOrder,
              LAMBDA l : \E k \in DOMAIN df.rows : df.rows[k]["Technique"] = l)

\* the values of one metric in the rows of one group, in row order
RECURSIVE GroupValues(_, _, _)
GroupValues(rows, label, metric) ==
    IF rows = <<>> THEN <<>>
    ELSE LET rest == GroupValues(SubSeq(rows, 1, Len(rows) - 1), label, metric)
             row  == rows[Len(rows)]
         IN  IF row["Technique"] = label THEN Append(rest, row[metric]) ELSE rest

RECURSIVE Sum(_)
Sum(vals) ==
    IF vals = <<>> THEN Zero
    ELSE RatAdd(Sum(SubSeq(vals, 1, Len(vals) - 1)), vals[Len(vals)])

\* 'mean': the arithmetic mean of a non-empty group
Mean(vals) == RatDivInt(Sum(vals), Len(vals))

\* sum of the squared deviations from the mean
SumSqDev(vals) ==
    Sum([k \in DOMAIN vals |->
            RatMul(RatSub(vals[k], Mean(vals)), RatSub(vals[k], Mean(vals)))])

\* the population standard deviation (ddof = 0) in place of the sample one
Std_Population(vals) ==
    IF Len(vals) < 2 THEN NaNSurd
    ELSE Sqrt(RatDivInt(SumSqDev(vals), Len(vals)))

\* 'std': the sample standard deviation (ddof = 1), NaN for fewer than 2 values
Std(vals) ==
    IF Len(vals) < 2 THEN NaNSurd
    ELSE Sqrt(RatDivInt(SumSqDev(vals), Len(vals) - 1))

\* the aggregate row of one group
SummaryRow(df, label, metrics) ==
    [Technique |-> label,
     agg |-> [m \in Range(metrics) |->
                 [mean |-> Mean(GroupValues(df.rows, label, m)),
                  std  |-> Std(GroupValues(df.rows, label, m))]]]

\* df_summary of lines 351-353
Summary(df) ==
    LET metrics == ExistingMetrics(df)
        keys    == GroupKeys(df)
    IN  [metrics |-> metrics,
         rows    |-> [k \in DOMAIN keys |-> SummaryRow(df, keys[k], metrics)]]

-----------------------------------------------------------------------------
(* Reordering: df_summary.set_index('Technique').reindex(TECHNIQUE_ORDER).reset_index() *)

\* the row reindex makes for a label the index does not hold
MissingRow(label, metrics) ==
    [Technique |-> label,
     agg |-> [m \in Range(metrics) |-> [mean |-> NaN, std |-> NaNSurd]]]

\* reindex raises on an index that holds a label twice
HasDuplicateIndex(summary) ==
    \E a, b \in DOMAIN summary.rows :
        a # b /\ summary.rows[a].Technique = summary.rows[b].Technique

\* a reordering that keeps only the labels the index holds
Reindex_DropMissing(summary, order) ==
    LET present == SelectSeq(order, LAMBDA l :
                       \E r \in DOMAIN summary.rows : summary.rows[r].Technique = l)
    IN  [metrics |-> summary.metrics,
         rows    |-> [k \in DOMAIN present |->
                        summary.rows[CHOOSE r \in DOMAIN summary.rows :
                                         summary.rows[r].Technique = present[k]]]]

Reindex(summary, order) ==
    [metrics |-> summary.metrics,
     rows    |-> [k \in DOMAIN order |->
                    IF \E r \in DOMAIN summary.rows : summary.rows[r].Technique = order[k]
                    THEN summary.rows[CHOOSE r \in DOMAIN summary.rows :
                                          summary.rows[r].Technique = order[k]]
                    ELSE MissingRow(order[k], summary.metrics)]]

\* the aggregate used as it is, without the reindex
Reordered_Unordered(summary) == summary

\* the try/except of lines 356-361
Reordered(summary) ==
    IF HasDuplicateIndex(summary) THEN summary
    ELSE Reindex(summary, TECHNIQUE_ORDER)

ReorderErrorLine ==
    "Error reordering dataframe. Check if all techniques in TECHNIQUE_ORDER"
        \o " exist in the CSV and were mapped correctly. Error: "
        \o "cannot reindex on an axis with duplicate labels"

-----------------------------------------------------------------------------
(* add_bar_annotations *)

\* the factor 1.02
Headroom == Rat(51, 50)

\* the std taken as it is, NaN included
StdValue_KeepNaN(std_val_raw) == std_val_raw

\* lines 84-87: a NaN std counts as 0.0
StdValue(std_val_raw) ==
    IF SurdIsNaN(std_val_raw) THEN SurdZero ELSE std_val_raw

\* lines 90-93
YPosition(mean_val, std_val) ==
    IF SurdIsZero(std_val)
    THEN RealScale(Real(mean_val, SurdZero), Headroom)
    ELSE RealScale(Real(mean_val, std_val), Headroom)

\* the tier test with <= in place of <
LabelPrecision_Inclusive(mean_val, precision_low, precision_high) ==
    IF RatLess(mean_val, One) \/ mean_val = One THEN precision_low ELSE precision_high

\* the precision lines 96-99 format the mean with
LabelPrecision(mean_val, precision_low, precision_high) ==
    IF RatLess(mean_val, One) THEN precision_low ELSE precision_high

\* lines 96-99
TextLabel(mean_val, unit, precision_low, precision_high) ==
    "(" \o FormatFixed(mean_val, LabelPrecision(mean_val, precision_low, precision_high))
        \o " " \o unit \o ")"

\* the ax.text calls of one chart, one per row of df, in row order
BarAnnotations(df, metric, unit, precision_low, precision_high) ==
    [k \in DOMAIN df.rows |->
        LET mean_val == df.rows[k].agg[metric].mean
            std_val  == StdValue(df.rows[k].agg[metric].std)
        IN  [x |-> k - 1,
             y |-> YPosition(mean_val, std_val),
             s |-> TextLabel(mean_val, unit, precision_low, precision_high)]]

-----------------------------------------------------------------------------
(* Charts.  Titles and axis labels are fixed strings and are left out. *)

\* (metric, 'mean') in df_summary_ordered.columns
HasMetric(summary, metric) == metric \in Range(summary.metrics)

\* str.lower() on the metric names of the plot tables
Lower(metric) ==
    CASE metric = "IntersectionCount_V"  -> "intersectioncount_v"
      [] metric = "AverageRoadLength"    -> "averageroadlength"
      [] metric = "AverageCircuity"      -> "averagecircuity"
      [] metric = "AverageRoadSteepness" -> "averageroadsteepness"

TimePlotPath ==
    PLOT_OUTPUT_DIR \o "01_efficiency_time_comparison_barchart_annotated.png"

MemoryPlotPath ==
    PLOT_OUTPUT_DIR \o "02_efficiency_memory_comparison_barchart_annotated.png"

\* the structural prefix starting at 02
StructuralPlotPath_OffByOne(index, metric) ==
    PLOT_OUTPUT_DIR \o Format02d(index + 2) \o "_structural_" \o Lower(metric)
        \o "_barchart.png"

\* line 248, with the path join of line 249
StructuralPlotPath(index, metric) ==
    PLOT_OUTPUT_DIR \o Format02d(index + 3) \o "_structural_" \o Lower(metric)
        \o "_barchart.png"

\* line 320, with the path join of line 321
AdaptabilityPlotPath(index, metric) ==
    PLOT_OUTPUT_DIR \o Format02d(index + 6) \o "_adaptability_" \o Lower(metric)
        \o "_barchart.png"

\* the figure one chart block draws and saves: sns.barplot, plt.errorbar,
\* the y scale, add_bar_annotations, plt.savefig
Chart(summary, metric, unit, precision_low, precision_high, yscale, path) ==
    [path     |-> path,
     yscale   |-> yscale,
     bars     |-> [k \in DOMAIN summary.rows |->
                      [x      |-> summary.rows[k].Technique,
                       height |-> summary.rows[k].agg[metric].mean]],
     whiskers |-> [k \in DOMAIN summary.rows |->
                      [x    |-> summary.rows[k].Technique,
                       y    |-> summary.rows[k].agg[metric].mean,
                       yerr |-> summary.rows[k].agg[metric].std]],
     texts    |-> BarAnnotations(summary, metric, unit, precision_low, precision_high)]

SavedLine(path) == "Saved: " \o path

SkipLine(metric) ==
    "Warning: Metric '" \o metric \o "' not found in aggregated data. Skipping plot."

MissingMetricsLine == "Warning: Not all expected metrics were found in the CSV."

\* what `error` holds after a lookup of a column the frame does not have
MissingColumn(column) == "missing column: " \o column

-----------------------------------------------------------------------------
(* The run *)

\* The state before the script starts.  The file is missing, or has every
\* metric column and up to MaxRows rows, or lacks exactly one metric column
\* and has up to two rows.  The output directory is absent (a first run) and,
\* for the missing file and the one-row files, also present (a rerun).
Init ==
    /\ pc = "setup"
    /\ \/ /\ fileExists = FALSE
          /\ csv = NoFile
       \/ /\ fileExists = TRUE
          /\ \E len \in 1..MaxRows : \E rows \in [1..len -> CsvRows(SourceMetrics)] :
                 csv = CsvFile(SourceMetrics, rows)
       \/ /\ fileExists = TRUE
          /\ \E m \in SourceMetrics : \E len \in 1..2 :
                 \E rows \in [1..len -> CsvRows(SourceMetrics \ {m})] :
                     csv = CsvFile(SourceMetrics \ {m}, rows)
    /\ dirExists \in (IF Len(csv.rows) <= 1 THEN BOOLEAN ELSE {FALSE})
    /\ dataframe = None
    /\ df_summary = None
    /\ df_summary_ordered = None
    /\ saved = <<>>
    /\ stdout = <<>>
    /\ i = 0
    /\ error = "none"

\* setup_analysis (the plot theme is left out)
SetupAnalysis ==
    /\ pc = "setup"
    /\ dirExists' = TRUE
    /\ stdout' = IF dirExists THEN stdout
                 ELSE Append(stdout, "Created directory: " \o PLOT_OUTPUT_DIR)
    /\ pc' = "load"
    /\ UNCHANGED <<fileExists, csv, dataframe, df_summary, df_summary_ordered,
                   saved, i, error>>

\* dataframe = load_data(CSV_FILE_PATH)
LoadData ==
    /\ pc = "load"
    /\ IF ~fileExists
       THEN /\ stdout' = stdout \o FileNotFoundLines
            /\ dataframe' = None
            /\ pc' = "main"
            /\ error' = error
       ELSE IF "MemoryUsed_bytes" \notin csv.columns
       THEN /\ stdout' = stdout \o LoadLines(csv)
            /\ dataframe' = dataframe
            /\ pc' = "crashed"
            /\ error' = MissingColumn("MemoryUsed_bytes")
       ELSE /\ stdout' = stdout \o LoadLines(csv)
            /\ dataframe' = LoadedFrame(csv)
            /\ pc' = "main"
            /\ error' = error
    /\ UNCHANGED <<fileExists, csv, dirExists, df_summary, df_summary_ordered,
                   saved, i>>

\* the run without data and without the check of line 333: the aggregation
\* raises on None
Abort_Unchecked ==
    /\ pc = "main"
    /\ dataframe = None
    /\ pc' = "crashed"
    /\ error' = "AttributeError: 'NoneType' object has no attribute 'columns'"
    /\ UNCHANGED <<fileExists, csv, dirExists, dataframe, df_summary,
                   df_summary_ordered, saved, stdout, i>>

\* lines 333-334: the run without data
Abort ==
    /\ pc = "main"
    /\ dataframe = None
    /\ stdout' = Append(stdout, "Analysis script aborted due to missing data.")
    /\ pc' = "done"
    /\ UNCHANGED <<fileExists, csv, dirExists, dataframe, df_summary,
                   df_summary_ordered, saved, i, error>>

\* lines 338-353
Aggregate ==
    /\ pc = "main"
    /\ dataframe # None
    /\ stdout' = IF Len(ExistingMetrics(dataframe)) < Len(metrics_to_aggregate)
                 THEN Append(stdout, MissingMetricsLine)
                 ELSE stdout
    /\ df_summary' = Summary(dataframe)
    /\ pc' = "reorder"
    /\ UNCHANGED <<fileExists, csv, dirExists, dataframe, df_summary_ordered,
                   saved, i, error>>

\* lines 355-361
Reorder ==
    /\ pc = "reorder"
    /\ df_summary_ordered' = Reordered(df_summary)
    /\ stdout' = IF HasDuplicateIndex(df_summary)
                 THEN Append(stdout, ReorderErrorLine)
                 ELSE stdout
    /\ pc' = "efficiency_time"
    /\ UNCHANGED <<fileExists, csv, dirExists, dataframe, df_summary, saved, i, error>>

\* create_efficiency_plots, lines 118-147
PlotTime ==
    /\ pc = "efficiency_time"
    /\ IF dataframe = None
       THEN /\ stdout' = Append(stdout, "Cannot create plots. Data not loaded.")
            /\ saved' = saved
            /\ pc' = "structural"
            /\ error' = error
       ELSE IF ~HasMetric(df_summary_ordered, "GenerationTime_s")
       THEN /\ stdout' = Append(stdout,
                "Generating Computational Efficiency plots (Bar Charts with Annotations)...")
            /\ saved' = saved
            /\ pc' = "crashed"
            /\ error' = MissingColumn("('GenerationTime_s', 'mean')")
       ELSE /\ stdout' = stdout \o
                << "Generating Computational Efficiency plots (Bar Charts with Annotations)...",
                   SavedLine(TimePlotPath) >>
            /\ saved' = Append(saved, Chart(df_summary_ordered, "GenerationTime_s",
                                            "s", 4, 1, "log", TimePlotPath))
            /\ pc' = "efficiency_memory"
            /\ error' = error
    /\ UNCHANGED <<fileExists, csv, dirExists, dataframe, df_summary,
                   df_summary_ordered, i>>

\* create_efficiency_plots, lines 149-172
PlotMemory ==
    /\ pc = "efficiency_memory"
    /\ IF ~HasMetric(df_summary_ordered, "MemoryUsed_MB")
       THEN /\ stdout' = stdout
            /\ saved' = saved
            /\ pc' = "crashed"
            /\ error' = MissingColumn("('MemoryUsed_MB', 'mean')")
       ELSE /\ stdout' = Append(stdout, SavedLine(MemoryPlotPath))
            /\ saved' = Append(saved, Chart(df_summary_ordered, "MemoryUsed_MB",
                                            "MB", 2, 1, "log", MemoryPlotPath))
            /\ pc' = "structural"
            /\ error' = error
    /\ UNCHANGED <<fileExists, csv, dirExists, dataframe, df_summary,
                   df_summary_ordered, i>>

\* one pass of a metric loop (lines 207-253, 279-325): the lines it prints
\* and the figures it saves
LoopLines(header, details, path) ==
    (IF i = 0 THEN <<header>> ELSE <<>>)
        \o << IF HasMetric(df_summary_ordered, details.metric)
              THEN SavedLine(path) ELSE SkipLine(details.metric) >>

LoopSaved(details, path) ==
    IF HasMetric(df_summary_ordered, details.metric)
    THEN Append(saved, Chart(df_summary_ordered, details.metric, details.unit,
                             details.precision, details.precision, "linear", path))
    ELSE saved

\* create_structural_realism_plots: iteration i of its loop
PlotStructural ==
    /\ pc = "structural"
    /\ IF dataframe = None
       THEN /\ stdout' = Append(stdout, "Cannot create structural plots. Data not loaded.")
            /\ saved' = saved
            /\ pc' = "adaptability"
            /\ i' = 0
       ELSE LET details == structural_metrics[i + 1]
                path    == StructuralPlotPath(i, details.metric)
            IN  /\ stdout' = stdout \o
                       LoopLines("Generating Structural Realism plots (Bar Charts)...",
                                 details, path)
                /\ saved' = LoopSaved(details, path)
                /\ IF i + 1 < Len(structural_metrics)
                   THEN pc' = pc /\ i' = i + 1
                   ELSE pc' = "adaptability" /\ i' = 0
    /\ UNCHANGED <<fileExists, csv, dirExists, dataframe, df_summary,
                   df_summary_ordered, error>>

\* create_functional_adaptability_plots: iteration i of its loop
PlotAdaptability ==
    /\ pc = "adaptability"
    /\ IF dataframe = None
       THEN /\ stdout' = Append(stdout, "Cannot create adaptability plots. Data not loaded.")
            /\ saved' = saved
            /\ pc' = "finish"
            /\ i' = 0
       ELSE LET details == adaptability_metrics[i + 1]
                path    == AdaptabilityPlotPath(i, details.metric)
            IN  /\ stdout' = stdout \o
                       LoopLines("Generating Functional Adaptability plots (Bar Charts)...",
                                 details, path)
                /\ saved' = LoopSaved(details, path)
                /\ IF i + 1 < Len(adaptability_metrics)
                   THEN pc' = pc /\ i' = i + 1
                   ELSE pc' = "finish" /\ i' = 0
    /\ UNCHANGED <<fileExists, csv, dirExists, dataframe, df_summary,
                   df_summary_ordered, error>>

\* line 373
Finish ==
    /\ pc = "finish"
    /\ stdout' = Append(stdout, "Analysis script finished.")
    /\ pc' = "done"
    /\ UNCHANGED <<fileExists, csv, dirExists, dataframe, df_summary,
                   df_summary_ordered, saved, i, error>>

Next ==
    \/ SetupAnalysis
    \/ LoadData
    \/ Abort
    \/ Aggregate
    \/ Reorder
    \/ PlotTime
    \/ PlotMemory
    \/ PlotStructural
    \/ PlotAdaptability
    \/ Finish

Spec == Init /\ [][Next]_vars

-----------------------------------------------------------------------------
(* Properties *)

Terminated == pc \in {"done", "crashed"}

SavedPaths == [k \in DOMAIN saved |-> saved[k].path]

AllMetricsPresent == fileExists /\ csv.columns = {"Technique"} \cup SourceMetrics

\* the labels of the loaded rows
LoadedLabels == {dataframe.rows[k]["Technique"] : k \in DOMAIN dataframe.rows}

\* the labels the file's rows get from the map
MappedLabels ==
    {IF csv.rows[k]["Technique"] \in DOMAIN TECHNIQUE_MAP
     THEN TECHNIQUE_MAP[csv.rows[k]["Technique"]]
     ELSE csv.rows[k]["Technique"] : k \in DOMAIN csv.rows}

\* the six file names, in the order of their prefixes
ExpectedPaths ==
    << "plots/01_efficiency_time_comparison_barchart_annotated.png",
       "plots/02_efficiency_memory_comparison_barchart_annotated.png",
       "plots/03_structural_intersectioncount_v_barchart.png",
       "plots/04_structural_averageroadlength_barchart.png",
       "plots/05_structural_averagecircuity_barchart.png",
       "plots/06_adaptability_averageroadsteepness_barchart.png" >>

\* the chart (position in ExpectedPaths) that plots a column of the file
ChartOfColumn(column) ==
    CASE column = "GenerationTime_s"     -> 1
      [] column = "MemoryUsed_bytes"     -> 2
      [] column = "IntersectionCount_V"  -> 3
      [] column = "AverageRoadLength"    -> 4
      [] column = "AverageCircuity"      -> 5
      [] column = "AverageRoadSteepness" -> 6

\* the metric a chart's skip diagnostic names
ChartMetricOfColumn(column) ==
    IF column = "MemoryUsed_bytes" THEN "MemoryUsed_MB" ELSE column

PathsWithout(chart) ==
    SelectSeq(ExpectedPaths, LAMBDA path : path # ExpectedPaths[chart])

\* C1: in a run whose input file exists and lacks exactly one metric column,
\* the run ends without an unhandled error, that metric's chart is skipped
\* with a diagnostic and every other chart is saved.
C1_OneMissingColumnSkipsOnlyItsChart ==
    \A column \in SourceMetrics :
        (/\ fileExists
         /\ csv.columns = {"Technique"} \cup (SourceMetrics \ {column})
         /\ Terminated)
        => /\ error = "none"
           /\ pc = "done"
           /\ SavedPaths = PathsWithout(ChartOfColumn(column))
           /\ SkipLine(ChartMetricOfColumn(column)) \in Range(stdout)

\* The part of C1 the code keeps: a missing IntersectionCount_V,
\* AverageRoadLength, AverageCircuity or AverageRoadSteepness column skips
\* that chart with its warning and the other five charts are saved.
C1_OptionalColumnSkipsOnlyItsChart ==
    \A column \in SourceMetrics \ {"GenerationTime_s", "MemoryUsed_bytes"} :
        (/\ fileExists
         /\ csv.columns = {"Technique"} \cup (SourceMetrics \ {column})
         /\ Terminated)
        => /\ error = "none"
           /\ pc = "done"
           /\ SavedPaths = PathsWithout(ChartOfColumn(column))
           /\ SkipLine(column) \in Range(stdout)

\* C2: with all three techniques and all six metrics in the input, the files
\* saved so far are always the first ones of 01..06 in that order, and the
\* finished run has saved exactly the six of them.
C2_SixFilesInPrefixOrder ==
    (AllMetricsPresent /\ Range(TECHNIQUE_ORDER) \subseteq MappedLabels)
    => /\ Len(saved) <= Len(ExpectedPaths)
       /\ SavedPaths = SubSeq(ExpectedPaths, 1, Len(saved))
       /\ error = "none"
       /\ pc = "done" => Len(saved) = 6

C2_Witness ==
    /\ AllMetricsPresent
    /\ Range(TECHNIQUE_ORDER) \subseteq MappedLabels
    /\ pc = "done"
    /\ Len(saved) = 6

\* C3: when the input file does not exist, load_data reports it and returns
\* None, and the run ends without raising, without aggregating and without
\* saving any chart.
C3_MissingFileAborts ==
    ~fileExists
    => /\ pc \in {"setup", "load", "main", "done"}
       /\ error = "none"
       /\ dataframe = None
       /\ df_summary = None
       /\ df_summary_ordered = None
       /\ saved = <<>>
       /\ pc \in {"main", "done"}
            => \E k \in DOMAIN stdout :
                   /\ stdout[k] = "Error: Data file not found at "
                                      \o "../ExperimentResults/TCC_Experiment_Results.csv"
                   /\ \A j \in 1..(k - 1) : stdout[j] = "Created directory: plots/"
       /\ pc = "done"
            => stdout[Len(stdout)] = "Analysis script aborted due to missing data."

C3_Witness == ~fileExists /\ pc = "done" /\ Len(stdout) >= 3

\* C4: the ordered aggregate has exactly three rows, in the fixed order
\* (Abordagem Baseada em Agentes, L-systems, Algoritmos Baseados em Grafos);
\* a technique without rows in the data has its row, with every metric
\* missing, and a technique with rows has a mean for every metric.
C4_OrderedAggregateHasTheFixedRows ==
    df_summary_ordered # None
    => /\ Len(df_summary_ordered.rows) = 3
       /\ df_summary_ordered.rows[1].Technique = "Abordagem Baseada em Agentes"
       /\ df_summary_ordered.rows[2].Technique = "L-systems"
       /\ df_summary_ordered.rows[3].Technique = "Algoritmos Baseados em Grafos"
       /\ \A k \in 1..3 : \A m \in Range(df_summary_ordered.metrics) :
              LET cell == df_summary_ordered.rows[k].agg[m]
              IN  IF df_summary_ordered.rows[k].Technique \in LoadedLabels
                  THEN ~IsNaN(cell.mean)
                  ELSE IsNaN(cell.mean) /\ SurdIsNaN(cell.std)

C4_Witness ==
    /\ df_summary_ordered # None
    /\ "L-systems" \notin LoadedLabels
    /\ "WaveFunctionCollapse" \in LoadedLabels
    /\ dataframe.rows[1]["Technique"] = "Algoritmos Baseados em Grafos"
    /\ "Abordagem Baseada em Agentes" \in LoadedLabels

\* the mean and the std a chart's text k annotates: the bar's height and the
\* whisker's length
AnnotatedMean(chart, k) == chart.bars[k].height

AnnotatedStd(chart, k) == chart.whiskers[k].yerr

\* C5: every annotation stands at (mean + std) * 1.02 when std > 0 and at
\* mean * 1.02 when std = 0 or std is missing, also for mean = 0.
C5_AnnotationHeight ==
    \A c \in DOMAIN saved : \A k \in DOMAIN saved[c].texts :
        LET mean == AnnotatedMean(saved[c], k)
            std  == AnnotatedStd(saved[c], k)
            y    == saved[c].texts[k].y
        IN  IF IsNaN(mean) THEN IsNaN(y.rat)
            ELSE /\ y.rat = Rat(mean.num * 102, mean.den * 100)
                 /\ IF ~SurdIsNaN(std) /\ std.coef.num > 0
                    THEN /\ y.coef = Rat(std.coef.num * 102, std.coef.den * 100)
                         /\ y.rad = std.rad
                    ELSE y.coef = Zero

C5_Witness ==
    \E c \in DOMAIN saved : \E a, b, z \in DOMAIN saved[c].texts :
        /\ SurdIsPositive(AnnotatedStd(saved[c], a))
        /\ SurdIsNaN(AnnotatedStd(saved[c], b))
        /\ AnnotatedMean(saved[c], b) = Zero
        /\ IsNaN(AnnotatedMean(saved[c], z))
        /\ \E d \in DOMAIN saved : \E e \in DOMAIN saved[d].texts :
               /\ AnnotatedStd(saved[d], e) = SurdZero
               /\ saved[d].texts[e].y.rat = Rat(51, 400)

\* the text of a label with the given number of decimals
LabelWith(mean, decimals, unit) ==
    "(" \o FormatFixed(mean, decimals) \o " " \o unit \o ")"

\* C6: a label is formatted with the caller's low precision exactly when
\* mean < 1.0 and with the caller's high precision otherwise (time: 4 and 1
\* decimals, memory: 2 and 1); mean = 1.0 uses the high precision.
C6_LabelPrecisionTier ==
    \A c \in DOMAIN saved : \A k \in DOMAIN saved[c].texts :
        LET mean  == AnnotatedMean(saved[c], k)
            below == ~IsNaN(mean) /\ mean.num < mean.den
            text  == saved[c].texts[k].s
        IN  /\ saved[c].path = ExpectedPaths[1]
                => text = LabelWith(mean, IF below THEN 4 ELSE 1, "s")
            /\ saved[c].path = ExpectedPaths[2]
                => text = LabelWith(mean, IF below THEN 2 ELSE 1, "MB")
            /\ saved[c].path = ExpectedPaths[3] => text = LabelWith(mean, 1, "")
            /\ saved[c].path = ExpectedPaths[4] => text = LabelWith(mean, 1, "m")
            /\ saved[c].path = ExpectedPaths[5] => text = LabelWith(mean, 3, "")
            /\ saved[c].path = ExpectedPaths[6] => text = LabelWith(mean, 3, "")

C6_Witness ==
    /\ Len(saved) >= 2
    /\ \E k \in DOMAIN saved[1].texts :
           /\ AnnotatedMean(saved[1], k) = One
           /\ saved[1].texts[k].s = "(1.0 s)"
    /\ \E k \in DOMAIN saved[1].texts : saved[1].texts[k].s = "(0.0625 s)"
    /\ \E k \in DOMAIN saved[2].texts :
           /\ AnnotatedMean(saved[2], k) = Rat(1023, 1024)
           /\ saved[2].texts[k].s = "(1.00 MB)"
    /\ \E k \in DOMAIN saved[2].texts : saved[2].texts[k].s = "(2.0 MB)"

\* C7: after load_data every row carries the mapped display name when its raw
\* label is a key of TECHNIQUE_MAP and its raw label otherwise; the rows are
\* the file's rows, in the file's order, with their values.
C7_RemapKeepsRows ==
    dataframe # None
    => /\ Len(dataframe.rows) = Len(csv.rows)
       /\ \A k \in DOMAIN csv.rows :
              LET raw == csv.rows[k]["Technique"]
                  row == dataframe.rows[k]
              IN  /\ raw = "AgentBasedRandomWalk"
                       => row["Technique"] = "Abordagem Baseada em Agentes"
                  /\ raw = "LSystem" => row["Technique"] = "L-systems"
                  /\ raw = "PathBasedAStarPOIs"
                       => row["Technique"] = "Algoritmos Baseados em Grafos"
                  /\ raw \notin {"AgentBasedRandomWalk", "LSystem", "PathBasedAStarPOIs"}
                       => row["Technique"] = raw
                  /\ \A c \in csv.columns \ {"Technique"} : row[c] = csv.rows[k][c]

C7_Witness ==
    /\ dataframe # None
    /\ Len(csv.rows) = 3
    /\ csv.rows[1]["Technique"] = "WaveFunctionCollapse"
    /\ dataframe.rows[1]["Technique"] = "WaveFunctionCollapse"
    /\ csv.rows[2]["Technique"] = "PathBasedAStarPOIs"
    /\ dataframe.rows[2]["Technique"] = "Algoritmos Baseados em Grafos"
    /\ csv.rows[3]["Technique"] = "L-systems"

\* the sum of f over a finite set of row numbers
RECURSIVE SumOver(_, _)
SumOver(rowNumbers, f) ==
    IF rowNumbers = {} THEN Zero
    ELSE LET k == CHOOSE n \in rowNumbers : TRUE
         IN  RatAdd(f[k], SumOver(rowNumbers \ {k}, f))

\* C8: every label of the loaded rows has one aggregate row, and its mean and
\* std of every metric are the arithmetic mean and the sample standard
\* deviation over exactly the rows with that label; the std is missing for
\* a group of fewer than 2 rows.
C8_AggregateOverExactlyTheGroup ==
    df_summary # None
    => /\ {df_summary.rows[r].Technique : r \in DOMAIN df_summary.rows} = LoadedLabels
       /\ Len(df_summary.rows) = Cardinality(LoadedLabels)
       /\ \A r \in DOMAIN df_summary.rows : \A m \in Range(df_summary.metrics) :
              LET group == {k \in DOMAIN dataframe.rows :
                               dataframe.rows[k]["Technique"] = df_summary.rows[r].Technique}
                  n     == Cardinality(group)
                  value == [k \in DOMAIN dataframe.rows |-> dataframe.rows[k][m]]
                  cell  == df_summary.rows[r].agg[m]
                  sq    == [k \in DOMAIN dataframe.rows |->
                               RatMul(RatSub(value[k], cell.mean),
                                      RatSub(value[k], cell.mean))]
              IN  /\ RatMul(cell.mean, Whole(n)) = SumOver(group, value)
                  /\ SurdIsNaN(cell.std) <=> n < 2
                  /\ n >= 2 =>
                       /\ cell.std.coef.num >= 0
                       /\ RatMul(RatMul(RatMul(cell.std.coef, cell.std.coef),
                                        cell.std.rad), Whole(n - 1))
                            = SumOver(group, sq)

C8_Witness ==
    /\ AllMetricsPresent
    /\ df_summary # None
    /\ Len(df_summary.rows) = 2
    /\ df_summary.rows[1].agg["GenerationTime_s"].mean = Rat(17, 32)
    /\ df_summary.rows[1].agg["GenerationTime_s"].std = [coef |-> One, rad |-> Rat(225, 512)]
    /\ df_summary.rows[1].agg["IntersectionCount_V"].std = [coef |-> One, rad |-> Rat(9, 2)]
    /\ SurdIsNaN(df_summary.rows[2].agg["GenerationTime_s"].std)
    /\ dataframe.rows[2]["Technique"] = df_summary.rows[2].Technique

\* C9: after load_data every row's MemoryUsed_MB is its MemoryUsed_bytes
\* divided by 1,048,576 (2,097,152 bytes are 2.0 MB), and MemoryUsed_bytes is
\* the file's value.
C9_MegabytesFromBytes ==
    dataframe # None
    => \A k \in DOMAIN dataframe.rows :
           LET row == dataframe.rows[k]
           IN  /\ row["MemoryUsed_bytes"] = csv.rows[k]["MemoryUsed_bytes"]
               /\ row["MemoryUsed_MB"].den > 0
               /\ 1048576 % row["MemoryUsed_MB"].den = 0
               /\ row["MemoryUsed_MB"].num * (1048576 \div row["MemoryUsed_MB"].den)
                    = row["MemoryUsed_bytes"].num
               /\ row["MemoryUsed_bytes"] = Whole(2097152)
                    => row["MemoryUsed_MB"] = Whole(2)

C9_Witness ==
    /\ dataframe # None
    /\ Len(dataframe.rows) >= 2
    /\ dataframe.rows[1]["MemoryUsed_bytes"] = Whole(2097152)
    /\ dataframe.rows[1]["MemoryUsed_MB"] = Whole(2)
    /\ dataframe.rows[2]["MemoryUsed_MB"] = Rat(1023, 1024)

\* the raw labels of the file that are neither keys of the map nor display names
UnmappedLabels ==
    {csv.rows[k]["Technique"] : k \in DOMAIN csv.rows}
        \ (DOMAIN TECHNIQUE_MAP \cup Range(TECHNIQUE_ORDER))

\* the warnings and errors the script can print
DiagnosticLines ==
    {MissingMetricsLine, ReorderErrorLine,
     "Cannot create plots. Data not loaded.",
     "Cannot create structural plots. Data not loaded.",
     "Cannot create adaptability plots. Data not loaded.",
     "Analysis script aborted due to missing data."}
        \cup Range(FileNotFoundLines)
        \cup {SkipLine(m) : m \in Range(metrics_to_aggregate)}

\* C10: rows with a label that is neither a key of TECHNIQUE_MAP nor a
\* display name keep their label in load_data, have no row in the ordered
\* aggregate and no bar, whisker or annotation in any chart, and no warning
\* or error line is printed about them.
C10_UnmappedRowsVanishSilently ==
    \A label \in UnmappedLabels :
        /\ dataframe # None
             => \A k \in DOMAIN csv.rows :
                    csv.rows[k]["Technique"] = label
                        => dataframe.rows[k]["Technique"] = label
        /\ df_summary_ordered # None
             => \A r \in DOMAIN df_summary_ordered.rows :
                    df_summary_ordered.rows[r].Technique # label
        /\ \A c \in DOMAIN saved :
               /\ \A b \in DOMAIN saved[c].bars : saved[c].bars[b].x # label
               /\ \A w \in DOMAIN saved[c].whiskers : saved[c].whiskers[w].x # label
               /\ Len(saved[c].texts) = Len(TECHNIQUE_ORDER)
        /\ AllMetricsPresent => Range(stdout) \cap DiagnosticLines = {}

C10_Witness ==
    /\ pc = "done"
    /\ AllMetricsPresent
    /\ Len(saved) = 6
    /\ "WaveFunctionCollapse" \in UnmappedLabels
    /\ "WaveFunctionCollapse" \in LoadedLabels
    /\ \E r \in DOMAIN df_summary.rows :
           df_summary.rows[r].Technique = "WaveFunctionCollapse"

====
